---- MODULE Spec2Model ----
(***************************************************************************)
(* Veridano threat monitoring agent (examples/threat-monitoring-agent.py): *)
(* the scheduler loop of VeridanoThreatMonitor, one monitoring cycle with  *)
(* its five category checks, the classification rules and the default      *)
(* alert handler.                                                          *)
(*                                                                         *)
(* Text the code inspects (titles, bodies, queries, keywords) is a         *)
(* sequence of one-character strings, so that lower(), slicing and the     *)
(* substring test are computed.  Text the code only copies (identifiers,   *)
(* source names, severities, recommended actions) is a TLA+ string.        *)
(* Scores are in tenths: 9.0 is 90.  Time is a logical clock.              *)
(***************************************************************************)
EXTENDS Integers, Sequences, FiniteSets, TLC

VARIABLES
    monitoring_active,  \* self.monitoring_active
    last_check,         \* self.last_check (clock value)
    interval_minutes,   \* argument of start_monitoring
    pc,                 \* position of the start_monitoring coroutine
    alerts,             \* local list `alerts` of the running check or cycle
    batch,              \* argument of the alert_callback call in progress
    emitted,            \* alerts printed by _default_alert_handler, in order
    sleep_secs,         \* argument of the asyncio.sleep in progress
    clock,              \* datetime.now(), logical
    cycles,             \* number of _monitoring_cycle calls started
    stop_requested,     \* stop_monitoring has been called
    cycle_raised,       \* the last cycle that ended, ended in the except branch
    failed,             \* what raised in this cycle: categories, or the alert_callback
    checked,            \* categories whose check returned in this cycle
    sink_calls,         \* alert_callback calls made by this cycle
    dispatched,         \* identifiers handed to the sink so far
    repeated,           \* identifiers handed to the sink more than once
    results,            \* documents a classification rule is applied to
    category,           \* the rule that is applied to them
    alert_callback,     \* self.alert_callback: the default handler or a callable
    alert_history,      \* CustomAlertHandler.alert_history
    notified,           \* channel messages of CustomAlertHandler, in order
    handled,            \* alerts of the batch handle_alerts has processed
    pc2,                \* position of a second start_monitoring coroutine
    alerts2,            \* local list `alerts` of the second coroutine's cycle
    tool_name,          \* call_tool argument `name`
    arguments,          \* call_tool argument `arguments`
    remote,             \* how the remote endpoint behaves for this call
    request,            \* payloads posted to VERIDANO_ENDPOINT by this call
    tool_result         \* what call_tool returned

vars == <<monitoring_active, last_check, interval_minutes, pc, alerts, batch,
          emitted, sleep_secs, clock, cycles, stop_requested, cycle_raised,
          failed, checked, sink_calls, dispatched, repeated, results, category,
          alert_callback, alert_history, notified, handled, pc2, alerts2,
          tool_name, arguments, remote, request, tool_result>>

handler_vars == <<alert_history, notified, handled>>

loop2_vars == <<pc2, alerts2>>

tool_vars == <<tool_name, arguments, remote, request, tool_result>>

\* the state outside the first scheduler loop
outside == <<alert_callback, handler_vars, loop2_vars, tool_vars>>

(***************************************************************************)
(* Bounds of the model.                                                    *)
(***************************************************************************)
MaxCycles == 2

MaxPad == 1

MaxBatch == 4

(***************************************************************************)
(* Text.                                                                   *)
(***************************************************************************)
query_critical_vulnerabilities ==
    <<"c","r","i","t","i","c","a","l"," ","v","u","l","n","e","r","a","b","i","l","i","t","y"," ","C","V","S","S"," ","s","c","o","r","e"," ","9",".","0">>

query_emergency_directives ==
    <<"e","m","e","r","g","e","n","c","y"," ","d","i","r","e","c","t","i","v","e"," ","i","m","m","e","d","i","a","t","e"," ","a","c","t","i","o","n"," ","r","e","q","u","i","r","e","d">>

query_apt_activity ==
    <<"a","d","v","a","n","c","e","d"," ","p","e","r","s","i","s","t","e","n","t"," ","t","h","r","e","a","t"," ","n","a","t","i","o","n","-","s","t","a","t","e"," ","a","t","t","r","i","b","u","t","i","o","n"," ","c","a","m","p","a","i","g","n">>

query_zeroday_activity ==
    <<"z","e","r","o","-","d","a","y"," ","e","x","p","l","o","i","t"," ","a","c","t","i","v","e"," ","e","x","p","l","o","i","t","a","t","i","o","n"," ","i","n"," ","t","h","e"," ","w","i","l","d">>

query_infrastructure_threats ==
    <<"c","r","i","t","i","c","a","l"," ","i","n","f","r","a","s","t","r","u","c","t","u","r","e"," ","a","t","t","a","c","k"," ","e","n","e","r","g","y"," ","w","a","t","e","r"," ","t","r","a","n","s","p","o","r","t","a","t","i","o","n">>

mock_title_prefix ==
    <<"M","o","c","k"," ","t","h","r","e","a","t"," ","i","n","t","e","l","l","i","g","e","n","c","e"," ","f","o","r",":"," ">>

mock_content_prefix ==
    <<"M","o","c","k"," ","c","o","n","t","e","n","t"," ","r","e","l","a","t","e","d"," ","t","o"," ">>

mock_content_suffix ==
    <<"."," ","T","h","i","s"," ","w","o","u","l","d"," ","c","o","n","t","a","i","n"," ","a","c","t","u","a","l"," ","g","o","v","e","r","n","m","e","n","t"," ","i","n","t","e","l","l","i","g","e","n","c","e"," ","i","n"," ","p","r","o","d","u","c","t","i","o","n",".">>

ellipsis ==
    <<".",".",".">>

kw_emergency ==
    <<"e","m","e","r","g","e","n","c","y">>

kw_apt ==
    <<"a","p","t">>

kw_nation_state ==
    <<"n","a","t","i","o","n","-","s","t","a","t","e">>

kw_attribution ==
    <<"a","t","t","r","i","b","u","t","i","o","n">>

kw_zero_day ==
    <<"z","e","r","o","-","d","a","y">>

kw_energy ==
    <<"e","n","e","r","g","y">>

kw_water ==
    <<"w","a","t","e","r">>

kw_transportation ==
    <<"t","r","a","n","s","p","o","r","t","a","t","i","o","n">>

kw_manufacturing ==
    <<"m","a","n","u","f","a","c","t","u","r","i","n","g">>

UpperCase ==
    <<"A","B","C","D","E","F","G","H","I","J","K","L","M","N","O","P","Q","R","S","T","U","V","W","X","Y","Z">>

LowerCase ==
    <<"a","b","c","d","e","f","g","h","i","j","k","l","m","n","o","p","q","r","s","t","u","v","w","x","y","z">>

\* str.lower() on one character
LowerChar(c) ==
    IF \E i \in 1..Len(UpperCase) : UpperCase[i] = c
    THEN LowerCase[CHOOSE i \in 1..Len(UpperCase) : UpperCase[i] = c]
    ELSE c

\* str.lower()
Lower(s) == [i \in 1..Len(s) |-> LowerChar(s[i])]

\* `sub in s` on strings
Contains(sub, s) ==
    \E i \in 0..(Len(s) - Len(sub)) : SubSeq(s, i + 1, i + Len(sub)) = sub

\* s[:n]
Take(s, n) == SubSeq(s, 1, IF Len(s) < n THEN Len(s) ELSE n)

\* any(keyword in text for keyword in keywords)
ContainsAny(keywords, s) == \E k \in 1..Len(keywords) : Contains(keywords[k], s)

(***************************************************************************)
(* Thresholds and fixed scores, in tenths.                                 *)
(***************************************************************************)
critical_cvss_threshold == 90

emergency_cvss_score == 100

apt_cvss_score == 85

zeroday_cvss_score == 95

infrastructure_cvss_score == 80

mock_cvss_score == 85

mock_title_query_chars == 50

summary_chars == 200

error_sleep_secs == 60

default_cvss_score == 0

unknown_severity_rank == 5

\* apt_keywords without its last keyword
apt_keywords_without_attribution == <<kw_apt, kw_nation_state>>

apt_keywords == <<kw_apt, kw_nation_state, kw_attribution>>

infrastructure_sectors == <<kw_energy, kw_water, kw_transportation, kw_manufacturing>>

(***************************************************************************)
(* ThreatAlert and the five classification rules.                          *)
(***************************************************************************)
ThreatAlert(doc, severity, cvss, action) ==
    [id                 |-> doc.id,
     title              |-> doc.title,
     source             |-> doc.source,
     severity           |-> severity,
     cvss_score         |-> cvss,
     published_date     |-> doc.published_date,
     summary            |-> Take(doc.content, summary_chars) \o ellipsis,
     recommended_action |-> action]

\* doc.get("cvss_score", 0)
GetCvssScore(doc) ==
    IF "cvss_score" \in DOMAIN doc THEN doc.cvss_score ELSE default_cvss_score

\* the threshold test with > for >=
QualifiesCriticalVulnerabilityStrict(doc) == GetCvssScore(doc) > critical_cvss_threshold

QualifiesCriticalVulnerability(doc) == GetCvssScore(doc) >= critical_cvss_threshold

\* the title test without lower()
QualifiesEmergencyDirectiveCaseSensitive(doc) == Contains(kw_emergency, doc.title)

QualifiesEmergencyDirective(doc) == Contains(kw_emergency, Lower(doc.title))

QualifiesAptActivity(doc) == ContainsAny(apt_keywords, Lower(doc.content))

QualifiesZeroday(doc) == Contains(kw_zero_day, Lower(doc.content))

QualifiesInfrastructure(doc) == ContainsAny(infrastructure_sectors, Lower(doc.content))

\* each check is the loop `for doc in documents: if test: alerts.append(alert)`
CriticalVulnerabilityAlerts(documents) ==
    LET q == SelectSeq(documents, QualifiesCriticalVulnerability)
    IN  [i \in 1..Len(q) |->
            ThreatAlert(q[i], "CRITICAL", GetCvssScore(q[i]),
                        "IMMEDIATE patching required")]

EmergencyDirectiveAlerts(documents) ==
    LET q == SelectSeq(documents, QualifiesEmergencyDirective)
    IN  [i \in 1..Len(q) |->
            ThreatAlert(q[i], "EMERGENCY", emergency_cvss_score,
                        "COMPLY immediately - Federal mandate")]

AptActivityAlerts(documents) ==
    LET q == SelectSeq(documents, QualifiesAptActivity)
    IN  [i \in 1..Len(q) |->
            ThreatAlert(q[i], "HIGH", apt_cvss_score,
                        "Review threat indicators and enhance monitoring")]

ZerodayActivityAlerts(documents) ==
    LET q == SelectSeq(documents, QualifiesZeroday)
    IN  [i \in 1..Len(q) |->
            ThreatAlert(q[i], "CRITICAL", zeroday_cvss_score,
                        "URGENT - Implement defensive measures immediately")]

InfrastructureThreatAlerts(documents) ==
    LET q == SelectSeq(documents, QualifiesInfrastructure)
    IN  [i \in 1..Len(q) |->
            ThreatAlert(q[i], "HIGH", infrastructure_cvss_score,
                        "Coordinate with sector security teams")]

Categories ==
    {"critical_vulnerability", "emergency_directive", "apt_activity", "zero_day",
     "infrastructure_threat"}

\* the alerts the check of category c builds from the documents of its query
CategoryAlerts(c, documents) ==
    CASE c = "critical_vulnerability" -> CriticalVulnerabilityAlerts(documents)
      [] c = "emergency_directive"    -> EmergencyDirectiveAlerts(documents)
      [] c = "apt_activity"           -> AptActivityAlerts(documents)
      [] c = "zero_day"               -> ZerodayActivityAlerts(documents)
      [] c = "infrastructure_threat"  -> InfrastructureThreatAlerts(documents)

(***************************************************************************)
(* _mock_search and the query of each category.                            *)
(***************************************************************************)
CategoryQuery(c) ==
    CASE c = "critical_vulnerability" -> query_critical_vulnerabilities
      [] c = "emergency_directive"    -> query_emergency_directives
      [] c = "apt_activity"           -> query_apt_activity
      [] c = "zero_day"               -> query_zeroday_activity
      [] c = "infrastructure_threat"  -> query_infrastructure_threats

CategorySources(c) ==
    CASE c = "critical_vulnerability" -> <<"NVD", "CISA", "US-CERT">>
      [] c = "emergency_directive"    -> <<"CISA", "DHS">>
      [] c = "apt_activity"           -> <<"NSA", "FBI", "USCYBERCOM">>
      [] c = "zero_day"               -> <<"FBI", "CISA", "US-CERT">>
      [] c = "infrastructure_threat"  -> <<"CISA", "DHS", "ICS-CERT">>

\* the one document _mock_search returns
MockDocument(query, sources, now) ==
    [id             |-> "MOCK-001",
     title          |-> mock_title_prefix \o Take(query, mock_title_query_chars) \o ellipsis,
     content        |-> mock_content_prefix \o query \o mock_content_suffix,
     source         |-> IF sources # <<>> THEN sources[1] ELSE "MOCK",
     cvss_score     |-> mock_cvss_score,
     published_date |-> now]

live_title ==
    <<"C","I","S","A"," ","E","m","e","r","g","e","n","c","y"," ","D","i","r","e","c","t","i","v","e"," ","2","4","-","0","2">>

live_content ==
    <<"Z","e","r","o","-","D","a","y"," ","e","x","p","l","o","i","t","e","d"," ","b","y"," ","A","P","T"," ","g","r","o","u","p"," ","a","g","a","i","n","s","t"," ","E","n","e","r","g","y"," ","s","e","c","t","o","r">>

plain_title ==
    <<"W","i","n","d","o","w","s"," ","T","C","P","/","I","P"," ","R","C","E">>

plain_content ==
    <<"R","e","m","o","t","e"," ","c","o","d","e"," ","e","x","e","c","u","t","i","o","n"," ","i","n"," ","t","h","e"," ","T","C","P","/","I","P"," ","s","t","a","c","k">>

TitleWords ==
    {<<"e","m","e","r","g","e","n","c","y">>,
     <<"E","m","e","r","g","e","n","c","y">>,
     <<"E","M","E","R","G","E","N","C","Y">>,
     <<"e","M","e","R","g","E","n","C","y">>,
     <<"e","m","e","r","g","e","n","c">>,
     <<"e","m","e","r","g","a","n","c","y">>,
     <<"m","e","r","g","e","n","c","y">>,
     <<"u","r","g","e","n","t">>,
     <<>>}

ContentWords ==
    {<<"a","p","t">>,
     <<"A","P","T">>,
     <<"A","p","t">>,
     <<"a","d","a","p","t">>,
     <<"a","p"," ","t">>,
     <<"n","a","t","i","o","n","-","s","t","a","t","e">>,
     <<"N","a","t","i","o","n","-","S","t","a","t","e">>,
     <<"n","a","t","i","o","n"," ","s","t","a","t","e">>,
     <<"a","t","t","r","i","b","u","t","i","o","n">>,
     <<"A","T","T","R","I","B","U","T","I","O","N">>,
     <<"a","t","t","r","i","b","u","t","i","o">>,
     <<"z","e","r","o","-","d","a","y">>,
     <<"Z","e","r","o","-","D","a","y">>,
     <<"Z","E","R","O","-","D","A","Y">>,
     <<"z","e","r","o"," ","d","a","y">>,
     <<"z","e","r","o","d","a","y">>,
     <<"e","n","e","r","g","y">>,
     <<"E","N","E","R","G","Y">>,
     <<"e","n","e","r","g">>,
     <<"w","a","t","e","r">>,
     <<"W","a","t","e","r">>,
     <<"t","r","a","n","s","p","o","r","t","a","t","i","o","n">>,
     <<"T","r","a","n","s","p","o","r","t","a","t","i","o","n">>,
     <<"m","a","n","u","f","a","c","t","u","r","i","n","g">>,
     <<"M","A","N","U","F","A","C","T","U","R","I","N","G">>,
     <<"m","a","n","u","f","a","c","t","u","r","e">>,
     <<"p","a","t","c","h">>,
     <<>>}

\* a document of the real service that qualifies under every rule
LiveDocument(now) ==
    [id             |-> "CVE-2024-38063",
     title          |-> live_title,
     content        |-> live_content,
     source         |-> "CISA",
     cvss_score     |-> 98,
     published_date |-> now]

\* The documents a category's query may return: what _mock_search returns, and
\* what the call it stands for may return (nothing, or documents of the service).
SearchResults(c, now) ==
    LET mock == MockDocument(CategoryQuery(c), CategorySources(c), now)
        live == LiveDocument(now)
    IN  {<<>>, <<mock>>, <<live>>}

(***************************************************************************)
(* _default_alert_handler: sorted() is stable, so the alerts of each rank  *)
(* keep their order.                                                       *)
(***************************************************************************)
\* severity_order with HIGH ranked before CRITICAL
severity_order_high_first ==
    [EMERGENCY |-> 0, CRITICAL |-> 2, HIGH |-> 1, MEDIUM |-> 3, LOW |-> 4]

severity_order ==
    [EMERGENCY |-> 0, CRITICAL |-> 1, HIGH |-> 2, MEDIUM |-> 3, LOW |-> 4]

\* severity_order.get(x.severity, 5)
SeverityKey(alert) ==
    IF alert.severity \in DOMAIN severity_order
    THEN severity_order[alert.severity]
    ELSE unknown_severity_rank

\* sorted(alerts, key=...)
SortedAlerts(as) ==
    LET WithKey(k) == SelectSeq(as, LAMBDA a : SeverityKey(a) = k)
    IN  WithKey(0) \o WithKey(1) \o WithKey(2) \o WithKey(3) \o WithKey(4)
        \o WithKey(unknown_severity_rank)

\* the alerts in the order the handler prints them
DefaultAlertHandler(as) == SortedAlerts(as)

(***************************************************************************)
(* The scheduler loop and one monitoring cycle.                            *)
(***************************************************************************)
Intervals == {0, 15}

CyclePcs ==
    {"check_critical_vulnerabilities", "check_emergency_directives",
     "check_apt_activity", "check_zeroday_activity",
     "check_infrastructure_threats", "process_alerts", "set_last_check"}

IdsOf(as) == {as[i].id : i \in 1..Len(as)}

\* identifiers at two positions of one batch
TwiceIn(as) == {as[i].id : i \in {j \in 1..Len(as) : \E k \in 1..Len(as) : k # j /\ as[k].id = as[j].id}}

LoopIdle ==
    /\ results = <<>>
    /\ category = "none"

\* CustomAlertHandler.__init__, not yet called
HandlerIdle ==
    /\ alert_history = <<>>
    /\ notified = <<>>
    /\ handled = 0

\* no second start_monitoring call
Loop2Idle ==
    /\ pc2 = "idle"
    /\ alerts2 = <<>>

\* no call_tool call
ToolIdle ==
    /\ tool_name = <<>>
    /\ arguments = <<>>
    /\ remote = "none"
    /\ request = <<>>
    /\ tool_result = <<>>

\* VeridanoThreatMonitor() with no alert_callback argument
OutsideIdle ==
    /\ alert_callback = "default"
    /\ HandlerIdle
    /\ Loop2Idle
    /\ ToolIdle

Init ==
    /\ monitoring_active = FALSE
    /\ clock = 1
    /\ last_check = 0
    /\ interval_minutes = 15
    /\ pc = "idle"
    /\ alerts = <<>>
    /\ batch = <<>>
    /\ emitted = <<>>
    /\ sleep_secs = 0
    /\ cycles = 0
    /\ stop_requested = FALSE
    /\ cycle_raised = FALSE
    /\ failed = {}
    /\ checked = {}
    /\ sink_calls = 0
    /\ dispatched = {}
    /\ repeated = {}
    /\ LoopIdle
    /\ OutsideIdle

\* start_monitoring up to its first await: the flag is set, the first loop
\* test passes and the first cycle is entered (nothing can run in between)
start_monitoring(interval) ==
    /\ pc = "idle"
    /\ interval_minutes' = interval
    /\ monitoring_active' = TRUE
    /\ cycles' = cycles + 1
    /\ pc' = "check_critical_vulnerabilities"
    /\ UNCHANGED <<last_check, alerts, batch, emitted, sleep_secs, clock,
                   stop_requested, cycle_raised, failed, checked, sink_calls,
                   dispatched, repeated, results, category, outside>>

\* stop_monitoring, called by another task while the loop is suspended
stop_monitoring ==
    /\ pc # "idle"
    /\ ~stop_requested
    /\ monitoring_active' = FALSE
    /\ stop_requested' = TRUE
    /\ UNCHANGED <<last_check, interval_minutes, pc, alerts, batch, emitted,
                   sleep_secs, clock, cycles, cycle_raised, failed, checked,
                   sink_calls, dispatched, repeated, results, category, outside>>

\* loop_test as `while True:`, the flag never read
loop_test_ignores_flag ==
    /\ pc = "loop_test"
    /\ cycles < MaxCycles
    /\ cycles' = cycles + 1
    /\ pc' = "check_critical_vulnerabilities"
    /\ alerts' = <<>>
    /\ batch' = <<>>
    /\ emitted' = <<>>
    /\ failed' = {}
    /\ checked' = {}
    /\ sink_calls' = 0
    /\ UNCHANGED <<monitoring_active, last_check, interval_minutes, sleep_secs,
                   clock, stop_requested, cycle_raised, dispatched, repeated,
                   results, category, outside>>

\* `while self.monitoring_active:` and the entry of _monitoring_cycle
loop_test ==
    /\ pc = "loop_test"
    /\ IF monitoring_active
       THEN /\ cycles < MaxCycles
            /\ cycles' = cycles + 1
            /\ pc' = "check_critical_vulnerabilities"
            /\ alerts' = <<>>
            /\ batch' = <<>>
            /\ emitted' = <<>>
            /\ failed' = {}
            /\ checked' = {}
            /\ sink_calls' = 0
       ELSE /\ pc' = "returned"
            /\ UNCHANGED <<cycles, alerts, batch, emitted, failed, checked, sink_calls>>
    /\ UNCHANGED <<monitoring_active, last_check, interval_minutes, sleep_secs,
                   clock, stop_requested, cycle_raised, dispatched, repeated,
                   results, category, outside>>

\* except_branch sleeping the configured interval instead of the fixed delay
except_branch_sleeps_interval ==
    /\ cycle_raised' = TRUE
    /\ sleep_secs' = interval_minutes * 60
    /\ pc' = "sleep"

\* except_branch letting the exception end start_monitoring
except_branch_returns ==
    /\ cycle_raised' = TRUE
    /\ sleep_secs' = sleep_secs
    /\ pc' = "returned"

\* `except Exception` of start_monitoring: the cycle is abandoned
except_branch ==
    /\ cycle_raised' = TRUE
    /\ sleep_secs' = error_sleep_secs
    /\ pc' = "sleep"

\* one category check of the cycle: the query returns documents and the check's
\* alerts are appended, or the query raises and the exception leaves the cycle
category_check(c, here, next) ==
    /\ pc = here
    /\ \/ \E documents \in SearchResults(c, clock) :
            /\ alerts' = alerts \o CategoryAlerts(c, documents)
            /\ checked' = checked \cup {c}
            /\ pc' = next
            /\ UNCHANGED <<failed, cycle_raised, sleep_secs>>
       \/ /\ failed' = failed \cup {c}
          /\ except_branch
          /\ UNCHANGED <<alerts, checked>>
    /\ UNCHANGED <<monitoring_active, last_check, interval_minutes, batch, emitted,
                   clock, cycles, stop_requested, sink_calls, dispatched, repeated,
                   results, category, outside>>

check_critical_vulnerabilities ==
    category_check("critical_vulnerability", "check_critical_vulnerabilities",
                   "check_emergency_directives")

check_emergency_directives ==
    category_check("emergency_directive", "check_emergency_directives",
                   "check_apt_activity")

check_apt_activity ==
    category_check("apt_activity", "check_apt_activity", "check_zeroday_activity")

check_zeroday_activity ==
    category_check("zero_day", "check_zeroday_activity",
                   "check_infrastructure_threats")

check_infrastructure_threats ==
    category_check("infrastructure_threat", "check_infrastructure_threats",
                   "process_alerts")

\* `if alerts: await self.alert_callback(alerts)`
process_alerts ==
    /\ pc = "process_alerts"
    /\ IF alerts # <<>>
       THEN /\ batch' = alerts
            /\ emitted' = DefaultAlertHandler(alerts)
            /\ sink_calls' = sink_calls + 1
            /\ dispatched' = dispatched \cup IdsOf(alerts)
            /\ repeated' = repeated \cup (IdsOf(alerts) \cap dispatched) \cup TwiceIn(alerts)
       ELSE UNCHANGED <<batch, emitted, sink_calls, dispatched, repeated>>
    /\ pc' = "set_last_check"
    /\ UNCHANGED <<monitoring_active, last_check, interval_minutes, alerts,
                   sleep_secs, clock, cycles, stop_requested, cycle_raised, failed,
                   checked, results, category, outside>>

\* `self.last_check = datetime.now()`, then the sleep after a completed cycle
set_last_check ==
    /\ pc = "set_last_check"
    /\ last_check' = clock
    /\ cycle_raised' = FALSE
    /\ sleep_secs' = interval_minutes * 60
    /\ pc' = "sleep"
    /\ UNCHANGED <<monitoring_active, interval_minutes, alerts, batch, emitted,
                   clock, cycles, stop_requested, failed, checked,
                   sink_calls, dispatched, repeated, results, category, outside>>

\* asyncio.sleep returns (at once when the delay is not positive)
wake ==
    /\ pc = "sleep"
    /\ clock' = clock + 1
    /\ pc' = "loop_test"
    /\ UNCHANGED <<monitoring_active, last_check, interval_minutes, alerts, batch,
                   emitted, sleep_secs, cycles, stop_requested, cycle_raised, failed,
                   checked, sink_calls, dispatched, repeated, results, category, outside>>

LoopStep ==
    \/ loop_test
    \/ check_critical_vulnerabilities
    \/ check_emergency_directives
    \/ check_apt_activity
    \/ check_zeroday_activity
    \/ check_infrastructure_threats
    \/ process_alerts
    \/ set_last_check
    \/ wake

Next ==
    \/ \E interval \in Intervals : start_monitoring(interval)
    \/ stop_monitoring
    \/ LoopStep

Spec == Init /\ [][Next]_vars

\* the event loop runs the coroutine whenever it can take a step
FairSpec == Spec /\ WF_vars(LoopStep)

(***************************************************************************)
(* The default alert handler on its own: any batch of up to MaxBatch       *)
(* alerts of the five severities.                                          *)
(***************************************************************************)
Severities == {"EMERGENCY", "CRITICAL", "HIGH", "MEDIUM", "LOW"}

BatchAlert(i, severity) ==
    ThreatAlert([id |-> ToString(i), title |-> plain_title, source |-> "NVD",
                 content |-> plain_content, published_date |-> 1],
                severity, apt_cvss_score, "Review threat indicators and enhance monitoring")

Batches ==
    UNION {{[i \in 1..n |-> BatchAlert(i, f[i])] : f \in [1..n -> Severities]} : n \in 0..MaxBatch}

LoopUnused ==
    /\ monitoring_active = FALSE
    /\ clock = 1
    /\ last_check = 0
    /\ interval_minutes = 15
    /\ sleep_secs = 0
    /\ cycles = 0
    /\ stop_requested = FALSE
    /\ cycle_raised = FALSE
    /\ failed = {}
    /\ checked = {}
    /\ sink_calls = 0
    /\ dispatched = {}
    /\ repeated = {}

InitSort ==
    /\ pc = "handler_called"
    /\ batch \in Batches
    /\ emitted = <<>>
    /\ alerts = <<>>
    /\ LoopUnused
    /\ LoopIdle
    /\ OutsideIdle

\* _default_alert_handler(batch)
default_alert_handler ==
    /\ pc = "handler_called"
    /\ emitted' = DefaultAlertHandler(batch)
    /\ pc' = "handler_returned"
    /\ UNCHANGED <<monitoring_active, last_check, interval_minutes, alerts, batch,
                   sleep_secs, clock, cycles, stop_requested, cycle_raised, failed,
                   checked, sink_calls, dispatched, repeated, results, category, outside>>

NextSort == default_alert_handler

SpecSort == InitSort /\ [][NextSort]_vars

(***************************************************************************)
(* The classification rules on their own: each rule applied to the         *)
(* documents of one query result.                                          *)
(***************************************************************************)
PadChars == {" ", "E"}

Pads == UNION {[1..n -> PadChars] : n \in 0..MaxPad}

Padded(words) == {p \o w \o q : p \in Pads, w \in words, q \in Pads}

TestScores == {0, 70, 85, 89, 90, 91, 98, 100}

ScoredDocument(title, content, score) ==
    [id |-> "DOC-1", title |-> title, content |-> content, source |-> "NVD",
     cvss_score |-> score, published_date |-> 1]

\* a document without the cvss_score key
UnscoredDocument(title, content) ==
    [id |-> "DOC-1", title |-> title, content |-> content, source |-> "NVD",
     published_date |-> 1]

TestDocuments ==
    {ScoredDocument(t, plain_content, s) : t \in Padded(TitleWords), s \in {85, 98}}
    \cup {ScoredDocument(plain_title, c, s) : c \in Padded(ContentWords), s \in {85, 98}}
    \cup {ScoredDocument(t, c, s) : t \in {plain_title, live_title},
                                    c \in {plain_content, live_content}, s \in TestScores}
    \cup {UnscoredDocument(t, c) : t \in {plain_title, live_title},
                                   c \in {plain_content, live_content}}

TestResults ==
    {<<d>> : d \in TestDocuments} \cup {<<d, LiveDocument(1)>> : d \in TestDocuments}

InitClassify ==
    /\ pc = "check_called"
    /\ category \in Categories
    /\ results \in TestResults
    /\ alerts = <<>>
    /\ batch = <<>>
    /\ emitted = <<>>
    /\ LoopUnused
    /\ OutsideIdle

\* the loop over results.get("documents", []) of the category's check
classify ==
    /\ pc = "check_called"
    /\ alerts' = CategoryAlerts(category, results)
    /\ pc' = "check_returned"
    /\ UNCHANGED <<monitoring_active, last_check, interval_minutes, batch, emitted,
                   sleep_secs, clock, cycles, stop_requested, cycle_raised, failed,
                   checked, sink_calls, dispatched, repeated, results, category, outside>>

NextClassify == classify

SpecClassify == InitClassify /\ [][NextClassify]_vars

(***************************************************************************)
(* The same loop of a monitor built with an alert_callback argument: a     *)
(* callable of the caller, which returns or raises.                        *)
(***************************************************************************)
InitSink ==
    /\ pc = "idle"
    /\ alerts = <<>>
    /\ batch = <<>>
    /\ emitted = <<>>
    /\ LoopUnused
    /\ LoopIdle
    /\ alert_callback = "callable"
    /\ HandlerIdle
    /\ Loop2Idle
    /\ ToolIdle

\* process_alerts_callable without `if alerts:`
process_alerts_callable_unguarded ==
    /\ pc = "process_alerts"
    /\ batch' = alerts
    /\ sink_calls' = sink_calls + 1
    /\ dispatched' = dispatched \cup IdsOf(alerts)
    /\ repeated' = repeated \cup (IdsOf(alerts) \cap dispatched) \cup TwiceIn(alerts)
    /\ pc' = "set_last_check"
    /\ UNCHANGED <<monitoring_active, last_check, interval_minutes, alerts, emitted,
                   sleep_secs, clock, cycles, stop_requested, cycle_raised, failed,
                   checked, results, category, outside>>

\* process_alerts_callable with last_check assigned before the callback is awaited
process_alerts_callable_stamps_first ==
    /\ pc = "process_alerts"
    /\ last_check' = clock
    /\ IF alerts # <<>>
       THEN /\ batch' = alerts
            /\ sink_calls' = sink_calls + 1
            /\ dispatched' = dispatched \cup IdsOf(alerts)
            /\ repeated' = repeated \cup (IdsOf(alerts) \cap dispatched) \cup TwiceIn(alerts)
            /\ \/ /\ pc' = "set_last_check"
                  /\ UNCHANGED <<failed, cycle_raised, sleep_secs>>
               \/ /\ failed' = failed \cup {"alert_callback"}
                  /\ except_branch
       ELSE /\ pc' = "set_last_check"
            /\ UNCHANGED <<batch, sink_calls, dispatched, repeated, failed,
                           cycle_raised, sleep_secs>>
    /\ UNCHANGED <<monitoring_active, interval_minutes, alerts, emitted,
                   clock, cycles, stop_requested, checked, results, category, outside>>

\* `if alerts: await self.alert_callback(alerts)` with a callable of the
\* caller: it returns, or it raises and the exception leaves the cycle
process_alerts_callable ==
    /\ pc = "process_alerts"
    /\ IF alerts # <<>>
       THEN /\ batch' = alerts
            /\ sink_calls' = sink_calls + 1
            /\ dispatched' = dispatched \cup IdsOf(alerts)
            /\ repeated' = repeated \cup (IdsOf(alerts) \cap dispatched) \cup TwiceIn(alerts)
            /\ \/ /\ pc' = "set_last_check"
                  /\ UNCHANGED <<failed, cycle_raised, sleep_secs>>
               \/ /\ failed' = failed \cup {"alert_callback"}
                  /\ except_branch
       ELSE /\ pc' = "set_last_check"
            /\ UNCHANGED <<batch, sink_calls, dispatched, repeated, failed,
                           cycle_raised, sleep_secs>>
    /\ UNCHANGED <<monitoring_active, last_check, interval_minutes, alerts, emitted,
                   clock, cycles, stop_requested, checked, results, category, outside>>

LoopStepSink ==
    \/ loop_test
    \/ check_critical_vulnerabilities
    \/ check_emergency_directives
    \/ check_apt_activity
    \/ check_zeroday_activity
    \/ check_infrastructure_threats
    \/ process_alerts_callable
    \/ set_last_check
    \/ wake

NextSink ==
    \/ \E interval \in Intervals : start_monitoring(interval)
    \/ stop_monitoring
    \/ LoopStepSink

SpecSink == InitSink /\ [][NextSink]_vars

FairSpecSink == SpecSink /\ WF_vars(LoopStepSink)

(***************************************************************************)
(* CustomAlertHandler.handle_alerts on its own: one step per alert of the  *)
(* batch (each notification is awaited), on a fresh handler or on one that *)
(* an earlier call left an alert in.                                       *)
(***************************************************************************)
\* the channel with CRITICAL sent to the standard one
AlertChannelCriticalStandard(severity) ==
    IF severity = "EMERGENCY" THEN "urgent"
    ELSE IF severity \in {"HIGH", "CRITICAL"} THEN "standard"
    ELSE "log"

\* the if / elif / else of handle_alerts: _send_urgent_notification,
\* _send_standard_notification or _log_alert
AlertChannel(severity) ==
    IF severity \in {"EMERGENCY", "CRITICAL"} THEN "urgent"
    ELSE IF severity = "HIGH" THEN "standard"
    ELSE "log"

\* an alert stored by an earlier handle_alerts call
EarlierAlert == BatchAlert(0, "LOW")

InitHandler ==
    /\ pc = "handle_called"
    /\ batch \in Batches
    /\ alert_history \in {<<>>, <<EarlierAlert>>}
    /\ notified = <<>>
    /\ handled = 0
    /\ alerts = <<>>
    /\ emitted = <<>>
    /\ LoopUnused
    /\ LoopIdle
    /\ alert_callback = "callable"
    /\ Loop2Idle
    /\ ToolIdle

\* one iteration of `for alert in alerts:`
handle_alert ==
    /\ pc = "handle_called"
    /\ handled < Len(batch)
    /\ LET alert == batch[handled + 1]
       IN  /\ alert_history' = Append(alert_history, alert)
           /\ notified' = Append(notified, [channel |-> AlertChannel(alert.severity),
                                             title |-> alert.title, id |-> alert.id])
    /\ handled' = handled + 1
    /\ UNCHANGED <<monitoring_active, last_check, interval_minutes, pc, alerts, batch,
                   emitted, sleep_secs, clock, cycles, stop_requested, cycle_raised,
                   failed, checked, sink_calls, dispatched, repeated, results,
                   category, alert_callback, loop2_vars, tool_vars>>

\* the loop is exhausted and handle_alerts returns
handle_alerts_return ==
    /\ pc = "handle_called"
    /\ handled = Len(batch)
    /\ pc' = "handle_returned"
    /\ UNCHANGED <<monitoring_active, last_check, interval_minutes, alerts, batch,
                   emitted, sleep_secs, clock, cycles, stop_requested, cycle_raised,
                   failed, checked, sink_calls, dispatched, repeated, results,
                   category, outside>>

NextHandler ==
    \/ handle_alert
    \/ handle_alerts_return

SpecHandler == InitHandler /\ [][NextHandler]_vars

(***************************************************************************)
(* The loop with start_monitoring called a second time on the same monitor *)
(* after stop_monitoring: a second coroutine runs the same code on the     *)
(* same fields, with its own position and its own local list.              *)
(***************************************************************************)
\* the second start_monitoring call up to its first loop test
start_monitoring_again ==
    /\ pc # "idle"
    /\ stop_requested
    /\ pc2 = "idle"
    /\ monitoring_active' = TRUE
    /\ pc2' = "loop_test"
    /\ UNCHANGED <<last_check, interval_minutes, pc, alerts, batch, emitted, sleep_secs,
                   clock, cycles, stop_requested, cycle_raised, failed, checked,
                   sink_calls, dispatched, repeated, results, category,
                   alert_callback, handler_vars, tool_vars, alerts2>>

\* `while self.monitoring_active:` in the second coroutine
loop2_test ==
    /\ pc2 = "loop_test"
    /\ IF monitoring_active
       THEN /\ cycles < MaxCycles
            /\ cycles' = cycles + 1
            /\ pc2' = "check_critical_vulnerabilities"
            /\ alerts2' = <<>>
       ELSE /\ pc2' = "returned"
            /\ UNCHANGED <<cycles, alerts2>>
    /\ UNCHANGED <<monitoring_active, last_check, interval_minutes, pc, alerts, batch,
                   emitted, sleep_secs, clock, stop_requested, cycle_raised, failed,
                   checked, sink_calls, dispatched, repeated, results, category,
                   alert_callback, handler_vars, tool_vars>>

\* the five checks of the second coroutine's cycle, in their order
Cycle2Checks ==
    <<[category |-> "critical_vulnerability", at |-> "check_critical_vulnerabilities",
       next |-> "check_emergency_directives"],
      [category |-> "emergency_directive", at |-> "check_emergency_directives",
       next |-> "check_apt_activity"],
      [category |-> "apt_activity", at |-> "check_apt_activity",
       next |-> "check_zeroday_activity"],
      [category |-> "zero_day", at |-> "check_zeroday_activity",
       next |-> "check_infrastructure_threats"],
      [category |-> "infrastructure_threat", at |-> "check_infrastructure_threats",
       next |-> "process_alerts"]>>

\* one category check of the second coroutine's cycle, its query answered by
\* _mock_search as written (the variety of query results is carried by the
\* first coroutine; the second one's control flow does not depend on them)
category_check2 ==
    /\ \E k \in 1..Len(Cycle2Checks) :
          LET c == Cycle2Checks[k].category
              documents == <<MockDocument(CategoryQuery(c), CategorySources(c), clock)>>
          IN  /\ pc2 = Cycle2Checks[k].at
              /\ alerts2' = alerts2 \o CategoryAlerts(c, documents)
              /\ pc2' = Cycle2Checks[k].next
    /\ UNCHANGED <<monitoring_active, last_check, interval_minutes, pc, alerts, batch,
                   emitted, sleep_secs, clock, cycles, stop_requested, cycle_raised,
                   failed, checked, sink_calls, dispatched, repeated, results,
                   category, alert_callback, handler_vars, tool_vars>>

\* `if alerts: await self.alert_callback(alerts)` in the second coroutine
process_alerts2 ==
    /\ pc2 = "process_alerts"
    /\ IF alerts2 # <<>>
       THEN /\ dispatched' = dispatched \cup IdsOf(alerts2)
            /\ repeated' = repeated \cup (IdsOf(alerts2) \cap dispatched) \cup TwiceIn(alerts2)
       ELSE UNCHANGED <<dispatched, repeated>>
    /\ pc2' = "set_last_check"
    /\ UNCHANGED <<monitoring_active, last_check, interval_minutes, pc, alerts, batch,
                   emitted, sleep_secs, clock, cycles, stop_requested, cycle_raised,
                   failed, checked, sink_calls, results, category,
                   alert_callback, handler_vars, tool_vars, alerts2>>

\* `self.last_check = datetime.now()` in the second coroutine, then its sleep
set_last_check2 ==
    /\ pc2 = "set_last_check"
    /\ last_check' = clock
    /\ pc2' = "sleep"
    /\ UNCHANGED <<monitoring_active, interval_minutes, pc, alerts, batch,
                   emitted, sleep_secs, clock, cycles, stop_requested, cycle_raised,
                   failed, checked, sink_calls, dispatched, repeated, results,
                   category, alert_callback, handler_vars, tool_vars, alerts2>>

\* asyncio.sleep returns in the second coroutine
wake2 ==
    /\ pc2 = "sleep"
    /\ clock' = clock + 1
    /\ pc2' = "loop_test"
    /\ UNCHANGED <<monitoring_active, last_check, interval_minutes, pc, alerts, batch,
                   emitted, sleep_secs, cycles, stop_requested, cycle_raised,
                   failed, checked, sink_calls, dispatched, repeated, results,
                   category, alert_callback, handler_vars, tool_vars, alerts2>>

Loop2Step ==
    \/ loop2_test
    \/ category_check2
    \/ process_alerts2
    \/ set_last_check2
    \/ wake2

NextRestart ==
    \/ \E interval \in Intervals : start_monitoring(interval)
    \/ stop_monitoring
    \/ LoopStep
    \/ start_monitoring_again
    \/ Loop2Step

SpecRestart == Init /\ [][NextRestart]_vars

(***************************************************************************)
(* The tool server of src/mcp_client.py: one call of call_tool with a name, *)
(* an argument map and a behaviour of the remote endpoint.  Names and the  *)
(* texts the call builds are tuples of one-character strings; argument     *)
(* values are only copied into the request and stay strings and numbers.   *)
(***************************************************************************)
VERIDANO_ENDPOINT ==
    "https://kapnlkosgwhjrzzfpp2ettgh4i0rqrbu.lambda-url.us-east-1.on.aws"

tool_semantic_search ==
    <<"s","e","m","a","n","t","i","c","_","s","e","a","r","c","h">>

tool_get_cve_details ==
    <<"g","e","t","_","c","v","e","_","d","e","t","a","i","l","s">>

tool_threat_intelligence_summary ==
    <<"t","h","r","e","a","t","_","i","n","t","e","l","l","i","g","e","n","c","e","_","s","u","m","m","a","r","y">>

\* the names list_tools announces
ListedTools ==
    {tool_semantic_search, tool_get_cve_details, tool_threat_intelligence_summary}

unknown_tool_prefix ==
    <<"U","n","k","n","o","w","n"," ","t","o","o","l",":"," ">>

upstream_error_prefix ==
    <<"E","r","r","o","r"," ">>

upstream_error_separator ==
    <<":"," ">>

transport_error_prefix ==
    <<"E","r","r","o","r"," ","c","o","n","n","e","c","t","i","n","g"," ","t","o"," ","V","e","r","i","d","a","n","o",":"," ">>

default_top_k == 5
default_min_score == 6
default_time_range == "30_days"
ok_status == 200

TextContent(text) == [type |-> "text", text |-> text]

\* dict.get(key, default)
Get(args, key, default) ==
    IF key \in DOMAIN args THEN args[key] ELSE default

DecimalDigits ==
    <<"0", "1", "2", "3", "4", "5", "6", "7", "8", "9">>

\* str() of a natural number, as an f-string formats response.status
RECURSIVE Str(_)
Str(n) ==
    IF n < 10 THEN <<DecimalDigits[n + 1]>>
    ELSE Str(n \div 10) \o <<DecimalDigits[(n % 10) + 1]>>

\* json.dumps(result, indent=2) of an object whose members are numbers; the
\* object is the sequence of its <<key, number>> members
JsonMember(member) ==
    <<" ", " ", "\"">> \o member[1] \o <<"\"", ":", " ">> \o Str(member[2])

RECURSIVE JsonMembers(_)
JsonMembers(members) ==
    IF Len(members) = 1 THEN JsonMember(members[1])
    ELSE JsonMember(members[1]) \o <<",", "\n">> \o JsonMembers(Tail(members))

json_dumps(result) ==
    IF result = <<>> THEN <<"{", "}">>
    ELSE <<"{", "\n">> \o JsonMembers(result) \o <<"\n", "}">>

\* the payload of semantic_search with the sources always copied
SearchPayloadAlwaysSources(args) ==
    [action |-> "semantic_search",
     query |-> Get(args, "query", ""),
     top_k |-> Get(args, "top_k", default_top_k),
     min_score |-> Get(args, "min_score", default_min_score),
     sources |-> Get(args, "sources", <<>>)]

\* the payload of semantic_search: `if sources:` adds the list when non-empty
SearchPayload(args) ==
    LET sources == Get(args, "sources", <<>>)
        payload == [action |-> "semantic_search",
                    query |-> Get(args, "query", ""),
                    top_k |-> Get(args, "top_k", default_top_k),
                    min_score |-> Get(args, "min_score", default_min_score)]
    IN  IF sources # <<>> THEN [sources |-> sources] @@ payload ELSE payload

CvePayload(args) ==
    [action |-> "get_cve_details", cve_id |-> Get(args, "cve_id", "")]

SummaryPayload(args) ==
    [action |-> "threat_intelligence_summary",
     threat_type |-> Get(args, "threat_type", ""),
     time_range |-> Get(args, "time_range", default_time_range)]

\* how a call ends: with a returned list, or with an exception leaving it
Return(text) == [raised |-> FALSE, value |-> <<TextContent(text)>>]
Raise(class, message) == [raised |-> TRUE, class |-> class, message |-> message]

\* the response handled with the status never looked at
RespondIgnoringStatus(response) ==
    IF response.json_ok THEN Return(json_dumps(response.result))
    ELSE Raise("ContentTypeError", response.error)

\* `if response.status == 200:` and its two branches; reading the body of the
\* response can itself raise
Respond(response) ==
    IF response.status = ok_status
    THEN IF response.json_ok THEN Return(json_dumps(response.result))
         ELSE Raise("ContentTypeError", response.error)
    ELSE IF response.body_ok
         THEN Return(upstream_error_prefix \o Str(response.status)
                     \o upstream_error_separator \o response.body)
         ELSE Raise("ClientPayloadError", response.error)

\* session.post(...) against the endpoint
Post(endpoint) ==
    CASE endpoint.kind = "refused" -> Raise("ClientConnectorError", endpoint.error)
      [] endpoint.kind = "timeout" -> Raise("TimeoutError", endpoint.error)
      [] endpoint.kind = "response" -> Respond(endpoint)

\* exception classes derived from Exception
ExceptionClasses ==
    {"ClientConnectorError", "ClientPayloadError", "ContentTypeError", "TimeoutError"}

\* a handler that catches only the client library's own errors
CatchesClientErrorsOnly(class) ==
    class \in {"ClientConnectorError", "ClientPayloadError", "ContentTypeError"}

\* `except Exception as e:`
Catches(class) ==
    class \in ExceptionClasses

\* the try statement around the whole body
Try(outcome) ==
    IF outcome.raised /\ Catches(outcome.class)
    THEN Return(transport_error_prefix \o outcome.message)
    ELSE outcome

\* the requests call_tool posts
Requests(name, args) ==
    CASE name = tool_semantic_search ->
             <<[url |-> VERIDANO_ENDPOINT, json |-> SearchPayload(args)]>>
      [] name = tool_get_cve_details ->
             <<[url |-> VERIDANO_ENDPOINT, json |-> CvePayload(args)]>>
      [] name = tool_threat_intelligence_summary ->
             <<[url |-> VERIDANO_ENDPOINT, json |-> SummaryPayload(args)]>>
      [] OTHER -> <<>>

\* inputs: names, argument maps and behaviours of the endpoint
UnknownTools ==
    {<<"g","e","t","_","c","v","e">>, <<"S","e","m","a","n","t","i","c","_","S","e","a","r","c","h">>}

ToolNames == ListedTools \cup UnknownTools

SourceLists == {<<>>, <<"CISA">>, <<"NVD", "CISA">>}

Optional(field) == {<<>>} \cup field

SearchArguments ==
    {q @@ k @@ m @@ s :
        q \in Optional({[query |-> "ransomware"]}),
        k \in Optional({[top_k |-> 10]}),
        m \in Optional({[min_score |-> 8]}),
        s \in Optional({[sources |-> l] : l \in SourceLists})}

CveArguments == Optional({[cve_id |-> "CVE-2024-38063"]})

SummaryArguments ==
    {t @@ r : t \in Optional({[threat_type |-> "ransomware"]}),
              r \in Optional({[time_range |-> "90_days"]})}

ArgumentsFor(name) ==
    CASE name = tool_semantic_search -> SearchArguments
      [] name = tool_get_cve_details -> CveArguments
      [] name = tool_threat_intelligence_summary -> SummaryArguments
      [] OTHER -> CveArguments

json_total ==
    <<"t","o","t","a","l">>

json_took ==
    <<"t","o","o","k">>

JsonResults ==
    {<<>>, <<<<json_total, 0>>>>, <<<<json_total, 12>>, <<json_took, 3>>>>}

error_not_found ==
    <<"N","o","t"," ","F","o","u","n","d">>

error_refused ==
    <<"C","a","n","n","o","t"," ","c","o","n","n","e","c","t"," ","t","o"," ","h","o","s","t">>

error_decode ==
    <<"A","t","t","e","m","p","t"," ","t","o"," ","d","e","c","o","d","e"," ","J","S","O","N"," ","w","i","t","h"," ","u","n","e","x","p","e","c","t","e","d"," ","m","i","m","e","t","y","p","e">>

error_payload ==
    <<"R","e","s","p","o","n","s","e"," ","p","a","y","l","o","a","d"," ","i","s"," ","n","o","t"," ","c","o","m","p","l","e","t","e","d">>

Statuses == {201, 404, 500}
ErrorBodies == {<<>>, error_not_found}

Response(status, json_ok, result, body_ok, body, error) ==
    [kind |-> "response", status |-> status, json_ok |-> json_ok,
     result |-> result, body_ok |-> body_ok, body |-> body, error |-> error]

Remotes ==
    {[kind |-> "refused", error |-> error_refused],
     [kind |-> "timeout", error |-> <<>>]}
    \cup {Response(ok_status, TRUE, j, TRUE, <<>>, <<>>) : j \in JsonResults}
    \cup {Response(ok_status, FALSE, <<>>, TRUE, error_not_found, error_decode)}
    \cup {Response(s, TRUE, <<<<json_total, 0>>>>, TRUE, b, <<>>) :
            s \in Statuses, b \in ErrorBodies}
    \cup {Response(s, FALSE, <<>>, FALSE, <<>>, error_payload) : s \in Statuses}

InitTool ==
    /\ pc = "tool_called"
    /\ tool_name \in ToolNames
    /\ arguments \in ArgumentsFor(tool_name)
    /\ remote \in Remotes
    /\ request = <<>>
    /\ tool_result = <<>>
    /\ batch = <<>>
    /\ alerts = <<>>
    /\ emitted = <<>>
    /\ LoopUnused
    /\ LoopIdle
    /\ alert_callback = "default"
    /\ HandlerIdle
    /\ Loop2Idle

\* one call of call_tool, from its first line to its return
call_tool ==
    /\ pc = "tool_called"
    /\ request' = Requests(tool_name, arguments)
    /\ LET outcome == Try(IF tool_name \in ListedTools THEN Post(remote)
                          ELSE Return(unknown_tool_prefix \o tool_name))
       IN  /\ pc' = IF outcome.raised THEN "tool_raised" ELSE "tool_returned"
           /\ tool_result' = IF outcome.raised THEN <<>> ELSE outcome.value
    /\ UNCHANGED <<tool_name, arguments, remote>>
    /\ UNCHANGED <<monitoring_active, last_check, interval_minutes, alerts,
                   batch, emitted, sleep_secs, clock, cycles, stop_requested,
                   cycle_raised, failed, checked, sink_calls, dispatched,
                   repeated, results, category, alert_callback, handler_vars,
                   loop2_vars>>

NextTool == call_tool

SpecTool == InitTool /\ [][NextTool]_vars

(***************************************************************************)
(* Properties.                                                             *)
(***************************************************************************)
\* the severity order of the specification, highest first
SeverityOrder == <<"EMERGENCY", "CRITICAL", "HIGH", "MEDIUM", "LOW">>

\* position of a severity in that order (1 is the highest)
SeverityPosition(severity) ==
    CHOOSE i \in 1..Len(SeverityOrder) : SeverityOrder[i] = severity

\* the upper-case form of a lower-case letter; any other character is itself
UpperOf(c) ==
    IF \E i \in 1..Len(LowerCase) : LowerCase[i] = c
    THEN UpperCase[CHOOSE i \in 1..Len(LowerCase) : LowerCase[i] = c]
    ELSE c

\* word occurs in text, each letter in either case
OccursAnyCase(word, text) ==
    \E i \in 0..(Len(text) - Len(word)) :
        \A k \in 1..Len(word) : text[i + k] \in {word[k], UpperOf(word[k])}

\* positions of the alerts built from the document with this identifier
AlertsFor(id) == {j \in 1..Len(alerts) : alerts[j].id = id}

\* C1: an alert identifier is handed to the alert sink at most once, across
\* the cycles of one monitor and within one batch (so a cycle that sees the
\* findings of the previous cycle again dispatches nothing).
C1_IdentifierDispatchedAtMostOnce == repeated = {}

\* C2: when the query of exactly one category fails in a cycle, the failure
\* does not leave the cycle: the other four categories are checked and the
\* alerts derived from them are dispatched to the sink in that cycle.
C2_OneCategoryFailureStillDispatches ==
    (pc = "sleep" /\ Cardinality(failed) = 1)
        => /\ ~cycle_raised
           /\ checked = Categories \ failed
           /\ alerts # <<>> => (sink_calls = 1 /\ batch = alerts)

\* a step in which an exception leaves the cycle
CycleRaises == pc \in CyclePcs /\ pc # "set_last_check" /\ pc' = "sleep"

\* C3: a cycle that raises never ends the loop: the loop sleeps the fixed 60
\* seconds (the configured interval is slept only after a completed cycle),
\* returns only after a stop request, and unless a stop is requested goes on
\* to start another cycle.
C3_ErrorCycleBacksOffAndContinues ==
    /\ [][CycleRaises => (cycle_raised' /\ sleep_secs' = 60)]_vars
    /\ [](pc = "sleep" => sleep_secs = IF cycle_raised THEN 60 ELSE interval_minutes * 60)
    /\ [](pc = "returned" => stop_requested)
    /\ [][(pc = "sleep" /\ cycle_raised /\ pc' # pc) => pc' = "loop_test"]_vars
    /\ [][(pc = "loop_test" /\ cycle_raised /\ ~stop_requested /\ pc' # pc)
              => (pc' = "check_critical_vulnerabilities" /\ cycles' = cycles + 1)]_vars
    /\ (pc = "sleep" /\ cycle_raised /\ cycles < MaxCycles)
           ~> (stop_requested \/ pc = "check_critical_vulnerabilities")

\* C3 witness: a second cycle is running after the first one raised
C3_Witness ==
    /\ cycle_raised
    /\ ~stop_requested
    /\ cycles = 2
    /\ pc = "check_emergency_directives"

\* C4: a stop request made while a cycle is in flight cancels nothing: the
\* call changes only the flag, the cycle goes on to its end (all five checks
\* and the final assignment when no query raises), no cycle is started once
\* the stop has been requested, and the loop returns.
C4_StopTakesEffectAfterCycle ==
    /\ [][(~stop_requested /\ stop_requested')
              => (pc' = pc /\ alerts' = alerts /\ checked' = checked /\ failed' = failed
                  /\ sink_calls' = sink_calls /\ last_check' = last_check)]_vars
    /\ [][stop_requested => cycles' = cycles]_vars
    /\ [][(stop_requested /\ pc \in CyclePcs /\ pc' # pc) => pc' \in CyclePcs \cup {"sleep"}]_vars
    /\ []((stop_requested /\ pc = "sleep" /\ failed = {})
              => (checked = Categories /\ last_check = clock
                  /\ sink_calls = IF alerts = <<>> THEN 0 ELSE 1))
    /\ (stop_requested /\ pc \in CyclePcs) ~> (pc = "sleep")
    /\ stop_requested ~> (pc = "returned")

\* C4 witness: the stop was requested during the cycle, which then gave its
\* alerts to the sink and finished; the loop has returned
C4_Witness ==
    /\ stop_requested
    /\ pc = "returned"
    /\ checked = Categories
    /\ sink_calls = 1
    /\ last_check = 1
    /\ cycles = 1
    /\ clock = 2

\* C5: with a non-positive interval start_monitoring fails before the monitor
\* becomes active and before any cycle runs.
C5_NonPositiveIntervalFailsFast ==
    (pc # "idle" /\ interval_minutes <= 0) => (~monitoring_active /\ cycles = 0)

\* C6: every batch handed to the sink is ordered by severity, EMERGENCY
\* first, and by score descending among alerts of equal severity.
C6_BatchSortedBySeverityThenScore ==
    \A i, j \in 1..Len(batch) :
        i < j =>
            \/ SeverityPosition(batch[i].severity) < SeverityPosition(batch[j].severity)
            \/ /\ batch[i].severity = batch[j].severity
               /\ batch[i].cvss_score >= batch[j].cvss_score

Severity(as) == [i \in 1..Len(as) |-> as[i].severity]

Occurrences(a, as) == Cardinality({i \in 1..Len(as) : as[i] = a})

\* C7: the default handler emits any batch in non-increasing severity under
\* EMERGENCY > CRITICAL > HIGH > MEDIUM > LOW ([HIGH, EMERGENCY, LOW, CRITICAL]
\* comes out as [EMERGENCY, CRITICAL, HIGH, LOW]), and what it emits is a
\* permutation of the batch.
C7_DefaultHandlerSortsBySeverity ==
    pc = "handler_returned" =>
        /\ \A i, j \in 1..Len(emitted) :
               i < j => SeverityPosition(emitted[i].severity) <= SeverityPosition(emitted[j].severity)
        /\ Len(emitted) = Len(batch)
        /\ \A i \in 1..Len(batch) : Occurrences(batch[i], emitted) = Occurrences(batch[i], batch)
        /\ Severity(batch) = <<"HIGH", "EMERGENCY", "LOW", "CRITICAL">>
               => Severity(emitted) = <<"EMERGENCY", "CRITICAL", "HIGH", "LOW">>

\* C7 witness: the batch of the example has been emitted
C7_Witness ==
    /\ pc = "handler_returned"
    /\ Severity(batch) = <<"HIGH", "EMERGENCY", "LOW", "CRITICAL">>
    /\ Severity(emitted) = <<"EMERGENCY", "CRITICAL", "HIGH", "LOW">>

\* C8: under critical_vulnerability a finding yields an alert exactly when its
\* score is at least 9.0; the alert is CRITICAL, keeps the finding's score and
\* identifier and recommends "IMMEDIATE patching required"; a finding with a
\* lower score or none yields no alert, and the check still returns.
C8_CriticalVulnerabilityRule ==
    (pc = "check_returned" /\ category = "critical_vulnerability") =>
        \A i \in 1..Len(results) :
            LET doc == results[i]
            IN  IF "cvss_score" \in DOMAIN doc /\ doc.cvss_score >= 90
                THEN /\ Cardinality(AlertsFor(doc.id)) = 1
                     /\ \A j \in AlertsFor(doc.id) :
                            /\ alerts[j].severity = "CRITICAL"
                            /\ alerts[j].cvss_score = doc.cvss_score
                            /\ alerts[j].recommended_action = "IMMEDIATE patching required"
                ELSE AlertsFor(doc.id) = {}

\* C8 witness: a finding with score exactly 9.0 gave an alert, next to one
\* with score 9.8
C8_Witness ==
    /\ pc = "check_returned"
    /\ category = "critical_vulnerability"
    /\ Len(results) = 2
    /\ "cvss_score" \in DOMAIN results[1]
    /\ results[1].cvss_score = 90
    /\ Len(alerts) = 2
    /\ alerts[1].cvss_score = 90

\* C9: under emergency_directive a finding yields an alert exactly when its
\* title contains "emergency" in any letter case; the alert is EMERGENCY with
\* score 10.0 whatever the finding's score.
C9_EmergencyDirectiveRule ==
    (pc = "check_returned" /\ category = "emergency_directive") =>
        \A i \in 1..Len(results) :
            LET doc == results[i]
            IN  IF OccursAnyCase(kw_emergency, doc.title)
                THEN /\ Cardinality(AlertsFor(doc.id)) = 1
                     /\ \A j \in AlertsFor(doc.id) :
                            /\ alerts[j].severity = "EMERGENCY"
                            /\ alerts[j].cvss_score = 100
                ELSE AlertsFor(doc.id) = {}

\* C9 witness: a title with the word in mixed case, and a score of 8.5, gave
\* an EMERGENCY alert of score 10.0
C9_Witness ==
    /\ pc = "check_returned"
    /\ category = "emergency_directive"
    /\ ~Contains(kw_emergency, results[1].title)
    /\ "cvss_score" \in DOMAIN results[1]
    /\ results[1].cvss_score = 85
    /\ Len(alerts) >= 1
    /\ alerts[1].id = results[1].id
    /\ alerts[1].cvss_score = 100

\* the fixed keyword set, severity and score (in tenths) of a body-keyword category
BodyRule(c) ==
    CASE c = "apt_activity" ->
             [keywords |-> {kw_apt, kw_nation_state, kw_attribution},
              severity |-> "HIGH", score |-> 85]
      [] c = "zero_day" ->
             [keywords |-> {kw_zero_day}, severity |-> "CRITICAL", score |-> 95]
      [] c = "infrastructure_threat" ->
             [keywords |-> {kw_energy, kw_water, kw_transportation, kw_manufacturing},
              severity |-> "HIGH", score |-> 80]

\* C10: under apt_activity, zero_day and infrastructure_threat a finding
\* yields an alert exactly when its body contains, in any letter case, one of
\* the category's keywords; the alert has the category's fixed severity and
\* score (HIGH 8.5, CRITICAL 9.5, HIGH 8.0) whatever the finding's score.
C10_BodyKeywordRules ==
    (pc = "check_returned" /\ category \in {"apt_activity", "zero_day", "infrastructure_threat"}) =>
        \A i \in 1..Len(results) :
            LET doc == results[i]
                rule == BodyRule(category)
            IN  IF \E word \in rule.keywords : OccursAnyCase(word, doc.content)
                THEN /\ Cardinality(AlertsFor(doc.id)) = 1
                     /\ \A j \in AlertsFor(doc.id) :
                            /\ alerts[j].severity = rule.severity
                            /\ alerts[j].cvss_score = rule.score
                ELSE AlertsFor(doc.id) = {}

\* C10 witness: a body that holds only "manufacturing", in upper case, gave a
\* HIGH alert of score 8.0 for a finding of score 9.8
C10_Witness ==
    /\ pc = "check_returned"
    /\ category = "infrastructure_threat"
    /\ Len(results) = 1
    /\ OccursAnyCase(kw_manufacturing, results[1].content)
    /\ ~Contains(kw_manufacturing, results[1].content)
    /\ "cvss_score" \in DOMAIN results[1]
    /\ results[1].cvss_score = 98
    /\ Len(alerts) = 1
    /\ alerts[1].severity = "HIGH"
    /\ alerts[1].cvss_score = 80

\* C11: the summary of an alert is the finding's body unchanged when the body
\* has at most 200 characters, and the first 200 characters followed by the
\* truncation marker only when it is longer.
C11_SummaryMarkedOnlyWhenTruncated ==
    pc = "check_returned" =>
        \A i \in 1..Len(results) :
            \A j \in AlertsFor(results[i].id) :
                alerts[j].summary =
                    IF Len(results[i].content) <= 200
                    THEN results[i].content
                    ELSE SubSeq(results[i].content, 1, 200) \o <<".", ".", ".">>

\* C12: in a cycle the sink is invoked once when the five checks have all
\* returned and left at least one alert, and not at all otherwise; it is never
\* given an empty batch and never invoked before the fifth check has returned.
C12_SinkInvokedOncePerCycleWithAlerts ==
    /\ sink_calls <= 1
    /\ sink_calls = 1 =>
           /\ batch # <<>>
           /\ batch = alerts
           /\ checked = Categories
           /\ pc \in {"set_last_check", "sleep", "loop_test", "returned"}
    /\ checked # Categories => sink_calls = 0
    /\ (checked = Categories /\ pc \in {"set_last_check", "sleep", "loop_test", "returned"})
           => sink_calls = IF alerts = <<>> THEN 0 ELSE 1

\* C12 witness: a cycle whose first four checks found nothing and whose
\* fifth found one alert has invoked the sink once
C12_Witness ==
    /\ pc = "set_last_check"
    /\ Len(alerts) = 1
    /\ alerts[1].severity = "HIGH"
    /\ alerts[1].cvss_score = 80
    /\ sink_calls = 1
    /\ batch = alerts

\* a step in which the alert_callback raises
SinkRaises == pc = "process_alerts" /\ pc' = "sleep"

\* C13: when the sink raises while a batch is dispatched the loop does not
\* end: the exception is handled in start_monitoring, the loop returns only
\* after a stop request, and unless a stop is requested a further cycle is
\* started.
C13_SinkFailureDoesNotEndLoop ==
    /\ [][SinkRaises => (cycle_raised' /\ "alert_callback" \in failed')]_vars
    /\ []("alert_callback" \in failed => pc \in {"sleep", "loop_test", "returned"})
    /\ []((pc = "returned" /\ "alert_callback" \in failed) => stop_requested)
    /\ [][("alert_callback" \in failed /\ ~stop_requested /\ pc = "loop_test" /\ pc' # pc)
              => (pc' = "check_critical_vulnerabilities" /\ cycles' = cycles + 1)]_vars
    /\ ("alert_callback" \in failed /\ cycles < MaxCycles)
           ~> (stop_requested \/ pc = "check_critical_vulnerabilities")

\* C13 witness: the sink was given the first cycle's batch and that cycle
\* raised without setting last_check; a second cycle is running
C13_Witness ==
    /\ alert_callback = "callable"
    /\ cycle_raised
    /\ dispatched # {}
    /\ last_check = 0
    /\ ~stop_requested
    /\ cycles = 2
    /\ pc = "check_emergency_directives"

\* C18: last_check is assigned only by the final step of a cycle whose five
\* checks and dispatch have returned, once per such cycle; a cycle that raises
\* in a query or in the sink leaves it unchanged; no step of a cycle changes
\* monitoring_active.
C18_LastCheckOnlyAfterCompletedCycle ==
    /\ [][last_check' # last_check
              => (pc = "set_last_check" /\ pc' = "sleep" /\ checked = Categories
                  /\ failed = {} /\ last_check' = clock)]_vars
    /\ [][(pc = "set_last_check" /\ pc' # pc) => last_check' = clock]_vars
    /\ [][CycleRaises => last_check' = last_check]_vars
    /\ []((pc = "sleep" /\ cycle_raised) => last_check < clock)
    /\ [][(pc \in CyclePcs /\ pc' # pc) => monitoring_active' = monitoring_active]_vars

\* C18 witness: the first cycle completed and set last_check; in the second
\* the sink raised and last_check still holds the first cycle's time
C18_Witness ==
    /\ pc = "sleep"
    /\ cycle_raised
    /\ "alert_callback" \in failed
    /\ cycles = 2
    /\ clock = 2
    /\ last_check = 1

\* C16: handle_alerts takes the batch in order; each alert is appended to
\* alert_history and sent to exactly one channel: urgent exactly for EMERGENCY
\* and CRITICAL, standard exactly for HIGH, the log for any other severity;
\* when the call returns alert_history has grown by the length of the batch.
C16_HandlerStoresAndRoutesEachAlert ==
    pc \in {"handle_called", "handle_returned"} =>
        LET before == Len(alert_history) - handled
        IN  /\ handled <= Len(batch)
            /\ pc = "handle_returned" => handled = Len(batch)
            /\ before \in {0, 1}
            /\ before = 1 => alert_history[1].id = "0"
            /\ Len(notified) = handled
            /\ \A k \in 1..handled :
                   /\ alert_history[before + k] = batch[k]
                   /\ notified[k].id = batch[k].id
                   /\ notified[k].channel \in {"urgent", "standard", "log"}
                   /\ notified[k].channel = "urgent"
                          <=> batch[k].severity \in {"EMERGENCY", "CRITICAL"}
                   /\ notified[k].channel = "standard" <=> batch[k].severity = "HIGH"

\* C16 witness: a batch of four severities was handled after an earlier alert
C16_Witness ==
    /\ pc = "handle_returned"
    /\ Severity(batch) = <<"HIGH", "EMERGENCY", "LOW", "CRITICAL">>
    /\ Len(alert_history) = 5
    /\ [k \in 1..4 |-> notified[k].channel] = <<"standard", "urgent", "log", "urgent">>

\* C17: when start_monitoring is called again only after stop_monitoring, the
\* loop that was running when stop_monitoring was called terminates: once the
\* stop has been requested it leaves its loop test only by returning, never
\* into another cycle, so that at most one loop goes on executing cycles.
C17_StoppedLoopTerminates ==
    [][(stop_requested /\ pc = "loop_test" /\ pc' # pc) => pc' = "returned"]_vars

\* what a returned text says, read from the text alone
IsTransportError(text) ==
    Take(text, Len(transport_error_prefix)) = transport_error_prefix

IsUpstreamError(text) ==
    /\ Len(text) > Len(upstream_error_prefix)
    /\ Take(text, Len(upstream_error_prefix)) = upstream_error_prefix
    /\ \E d \in 1..Len(DecimalDigits) :
          text[Len(upstream_error_prefix) + 1] = DecimalDigits[d]

IsSuffix(sub, s) ==
    /\ Len(sub) <= Len(s)
    /\ SubSeq(s, Len(s) - Len(sub) + 1, Len(s)) = sub

ReturnedText == tool_result[1].text

\* C14: for each of the three listed tools, a response with a status other
\* than 200 (whose body arrives) returns an upstream-error text that carries
\* the decimal status code and ends with the response body, is no success
\* payload and is no transport-error text; a refused connection or a timeout
\* returns a transport-error text, which is no upstream-error text.
C14_NonOkStatusIsUpstreamError ==
    (pc # "tool_called" /\ tool_name \in ListedTools) =>
        /\ (remote.kind = "response" /\ remote.status # 200 /\ remote.body_ok) =>
              /\ pc = "tool_returned"
              /\ IsUpstreamError(ReturnedText)
              /\ Contains(Str(remote.status), ReturnedText)
              /\ IsSuffix(remote.body, ReturnedText)
              /\ \A j \in JsonResults : ReturnedText # json_dumps(j)
              /\ ~IsTransportError(ReturnedText)
        /\ remote.kind \in {"refused", "timeout"} =>
              /\ pc = "tool_returned"
              /\ IsTransportError(ReturnedText)
              /\ ~IsUpstreamError(ReturnedText)

C14_Witness ==
    /\ pc = "tool_returned"
    /\ tool_name = tool_threat_intelligence_summary
    /\ remote.kind = "response"
    /\ remote.status = 404
    /\ remote.body = error_not_found
    /\ remote.body_ok
    /\ IsUpstreamError(ReturnedText)

\* C15: the request of a semantic_search call has no sources field when the
\* arguments have no sources or an empty list, and has exactly the given list
\* when it is non-empty; query, top_k and min_score are always in the request,
\* with the given values, or "", 5 and 0.6 (6 tenths) when not given.
C15_SourcesOmittedWhenEmpty ==
    (pc # "tool_called" /\ tool_name = tool_semantic_search) =>
        /\ Len(request) = 1
        /\ LET payload == request[1].json
               given(key) == key \in DOMAIN arguments
           IN  /\ {"query", "top_k", "min_score"} \subseteq DOMAIN payload
               /\ payload.query = IF given("query") THEN arguments.query ELSE ""
               /\ payload.top_k = IF given("top_k") THEN arguments.top_k ELSE 5
               /\ payload.min_score =
                      IF given("min_score") THEN arguments.min_score ELSE 6
               /\ IF given("sources") /\ Len(arguments.sources) > 0
                  THEN /\ "sources" \in DOMAIN payload
                       /\ payload.sources = arguments.sources
                  ELSE "sources" \notin DOMAIN payload

C15_Witness ==
    /\ pc = "tool_returned"
    /\ tool_name = tool_semantic_search
    /\ DOMAIN arguments = {"query", "sources"}
    /\ arguments.sources = <<>>
    /\ DOMAIN request[1].json = {"action", "query", "top_k", "min_score"}
    /\ request[1].json.top_k = 5

\* C19: call_tool never ends with an exception: whatever the name, the
\* arguments and the remote behaviour, it returns a list of exactly one text
\* item; for a name that is not a listed tool that item is "Unknown tool: "
\* followed by the name, and no request has been sent.
C19_AlwaysReturnsOneTextItem ==
    (pc # "tool_called") =>
        /\ pc = "tool_returned"
        /\ Len(tool_result) = 1
        /\ tool_result[1].type = "text"
        /\ tool_name \notin ListedTools =>
              /\ ReturnedText = unknown_tool_prefix \o tool_name
              /\ request = <<>>

C19_Witness ==
    /\ pc = "tool_returned"
    /\ tool_name \in UnknownTools
    /\ Lower(tool_name) = tool_semantic_search
    /\ remote.kind = "refused"
    /\ request = <<>>
    /\ Len(tool_result) = 1

====
